---- MODULE Spec2Model ----
(***************************************************************************)
(* Model of pkg/controller/restore_finalizer_controller.go: the restore    *)
(* finalizer reconciler, its finalization task (patchDynamicPVWithVolume-  *)
(* Info) with its pool of per-volume workers, and the helpers needPatch    *)
(* and getRestoredPVCFromRestoredResourceList.                             *)
(*                                                                         *)
(* Go strings that the code takes apart or puts together are sequences of  *)
(* one-character strings; all other strings are opaque TLA+ strings.       *)
(***************************************************************************)
EXTENDS Integers, Sequences, FiniteSets, TLC

\* ------------------------------------------------------------------------
\* Bounds of the model
\* ------------------------------------------------------------------------
\* Reconcile calls made for the restore (the first call and its re-queues).
MaxCalls == 2
\* Largest Warnings / Errors count the restore carries before finalization.
MaxCount == 1
\* Eligible volumes presented at once to the worker pool in SpecBurst.
NumBurst == 4
\* Pieces an inventory entry is put together from in SpecInventory.
MaxPieces == 4

\* ------------------------------------------------------------------------
\* Program constants
\* ------------------------------------------------------------------------
maxConcurrency == 3

\* len("(created)")
CreatedSuffixLen == 9

\* restore.ItemRestoreResultCreated
ItemRestoreResultCreated == <<"c", "r", "e", "a", "t", "e", "d">>

\* pvcKey := "v1/PersistentVolumeClaim"
pvcKey == "v1/PersistentVolumeClaim"

RestorePhaseFinalizing == "Finalizing"
RestorePhaseFinalizingPartiallyFailed == "FinalizingPartiallyFailed"
RestorePhaseCompleted == "Completed"
RestorePhasePartiallyFailed == "PartiallyFailed"

\* The phases a Restore can carry.
RestorePhases ==
    {"New", "InProgress", "Failed",
     RestorePhaseFinalizing, RestorePhaseFinalizingPartiallyFailed,
     RestorePhaseCompleted, RestorePhasePartiallyFailed}

PodVolumeBackup == "PodVolumeBackup"
CSISnapshot == "CSISnapshot"
NativeSnapshot == "NativeSnapshot"

ClaimBound == "Bound"
VolumeBound == "Bound"

\* ------------------------------------------------------------------------
\* Results (pkg/util/results.Result): three scopes, each a list of messages
\* ------------------------------------------------------------------------
EmptyResult == [Velero |-> <<>>, Cluster |-> <<>>, Namespaces |-> <<>>]

\* The message list of namespace ns (empty when ns has no entry).
NsEntries(r, ns) ==
    IF ns \in DOMAIN r.Namespaces THEN r.Namespaces[ns] ELSE <<>>

\* Result.Add(ns, err): append under the namespace scope of ns.
ResultAdd(r, ns, e) ==
    [r EXCEPT !.Namespaces =
        [n \in (DOMAIN r.Namespaces) \cup {ns} |->
            IF n = ns THEN Append(NsEntries(r, ns), e) ELSE r.Namespaces[n]]]

\* Result.Merge(other): per scope, the entries of other are appended.
ResultMerge(r, other) ==
    [Velero |-> r.Velero \o other.Velero,
     Cluster |-> r.Cluster \o other.Cluster,
     Namespaces |->
        [n \in (DOMAIN r.Namespaces) \cup (DOMAIN other.Namespaces) |->
            NsEntries(r, n) \o NsEntries(other, n)]]

\* Result.IsEmpty()
ResultIsEmpty(r) ==
    /\ Len(r.Velero) = 0
    /\ Len(r.Cluster) = 0
    /\ \A n \in DOMAIN r.Namespaces : Len(r.Namespaces[n]) = 0

RECURSIVE SumLen(_, _)
SumLen(f, S) ==
    IF S = {} THEN 0
    ELSE LET n == CHOOSE x \in S : TRUE
         IN Len(f[n]) + SumLen(f, S \ {n})

\* The count without the loop over r.Namespaces.
ResultCountWithoutNamespaces(r) == Len(r.Velero) + Len(r.Cluster)

\* len(r.Velero) + len(r.Cluster) + the sum of len over r.Namespaces
ResultCount(r) ==
    Len(r.Velero) + Len(r.Cluster) + SumLen(r.Namespaces, DOMAIN r.Namespaces)

\* ------------------------------------------------------------------------
\* getRestoredPVCFromRestoredResourceList
\* ------------------------------------------------------------------------
\* Position of the first ")" of s at or after i, 0 when there is none.
RECURSIVE FirstClose(_, _)
FirstClose(s, i) ==
    IF i > Len(s) THEN 0
    ELSE IF s[i] = ")" THEN i
    ELSE FirstClose(s, i + 1)

\* regexp `\(([^)]+)\)`, FindAllStringSubmatch(s, -1) from position i: the
\* captured groups of the leftmost non-overlapping matches, in order.
RECURSIVE FindAllGroups(_, _)
FindAllGroups(s, i) ==
    IF i > Len(s) THEN <<>>
    ELSE IF s[i] # "(" THEN FindAllGroups(s, i + 1)
    ELSE LET e == FirstClose(s, i + 1)
         IN IF e = 0 THEN <<>>
            ELSE IF e = i + 1 THEN FindAllGroups(s, i + 1)
            ELSE <<SubSeq(s, i + 1, e - 1)>> \o FindAllGroups(s, e + 1)

\* The condition looking at the first match instead of the last.
IsCreatedEntryFirstMatch(pvc) ==
    LET matches == FindAllGroups(pvc, 1)
    IN /\ Len(matches) > 0
       /\ matches[1] = ItemRestoreResultCreated

\* The condition of the if statement in the loop over the PVC entries.
IsCreatedEntry(pvc) ==
    LET matches == FindAllGroups(pvc, 1)
    IN /\ Len(matches) > 0
       /\ matches[Len(matches)] = ItemRestoreResultCreated

\* pvc[:len(pvc)-len("(created)")]
TrimCreated(pvc) == SubSeq(pvc, 1, Len(pvc) - CreatedSuffixLen)

getRestoredPVCFromRestoredResourceList(restoredResourceList) ==
    LET entries == IF pvcKey \in DOMAIN restoredResourceList
                   THEN restoredResourceList[pvcKey] ELSE <<>>
    IN {TrimCreated(entries[j]) :
            j \in {k \in 1..Len(entries) : IsCreatedEntry(entries[k])}}

\* ------------------------------------------------------------------------
\* needPatch
\* ------------------------------------------------------------------------
\* The loop over pvInfo.Labels: some recorded key is missing from the new
\* PV's labels or carries another value there.
RECURSIVE LabelsDiffer(_, _, _)
LabelsDiffer(newPVLabels, pvLabels, keys) ==
    IF keys = {} THEN FALSE
    ELSE LET k == CHOOSE x \in keys : TRUE
         IN IF k \notin DOMAIN newPVLabels THEN TRUE
            ELSE IF newPVLabels[k] # pvLabels[k] THEN TRUE
            ELSE LabelsDiffer(newPVLabels, pvLabels, keys \ {k})

\* needPatch comparing the label sets as wholes.
needPatchExactLabels(newPV, pvInfo) ==
    \/ newPV.ReclaimPolicy # pvInfo.ReclaimPolicy
    \/ newPV.Labels # pvInfo.Labels

needPatch(newPV, pvInfo) ==
    IF newPV.ReclaimPolicy # pvInfo.ReclaimPolicy THEN TRUE
    ELSE LabelsDiffer(newPV.Labels, pvInfo.Labels, DOMAIN pvInfo.Labels)

\* ------------------------------------------------------------------------
\* Values of the inputs
\* ------------------------------------------------------------------------
NsA == <<"a">>
NsB == <<"b">>
PvcP == <<"p">>
PvcQ == <<"q">>

\* PVInfo is a pointer: <<>> is nil, <<info>> points to info.
NilPVInfo == <<>>
NoLabels == [k \in {} |-> "v1"]
PVInfoRetainK1 == [ReclaimPolicy |-> "Retain", Labels |-> [k \in {"k1"} |-> "v1"]]
PVInfoDeletePlain == [ReclaimPolicy |-> "Delete", Labels |-> NoLabels]

VolumeItem(method, ns, pvc, pvInfo) ==
    [BackupMethod |-> method, PVCNamespace |-> ns, PVCName |-> pvc,
     PVName |-> "pv-src", PVInfo |-> pvInfo]

\* fmt.Sprintf("%s/%s", restoredNamespace, volumeItem.PVCName)
PVCKeyOf(ns, name) == ns \o <<"/">> \o name

\* "namespace/pvcName(status)"
InventoryEntry(ns, name, status) == PVCKeyOf(ns, name) \o <<"(">> \o status \o <<")">>
StatusSkipped == <<"s", "k", "i", "p", "p", "e", "d">>

\* ------------------------------------------------------------------------
\* The cluster API as the workers see it
\* ------------------------------------------------------------------------
NoClaimRef == [Set |-> FALSE, Namespace |-> <<>>, Name |-> <<>>]
ClaimRef(ns, name) == [Set |-> TRUE, Namespace |-> ns, Name |-> name]

PVCNotFound == [Kind |-> "NotFound", Phase |-> "", VolumeName |-> ""]
PVCError == [Kind |-> "Error", Phase |-> "", VolumeName |-> ""]
PVCObject(phase, volumeName) ==
    [Kind |-> "Object", Phase |-> phase, VolumeName |-> volumeName]

PVNotFound ==
    [Kind |-> "NotFound", Phase |-> "", ClaimRef |-> NoClaimRef,
     ReclaimPolicy |-> "", Labels |-> NoLabels]
PVError ==
    [Kind |-> "Error", Phase |-> "", ClaimRef |-> NoClaimRef,
     ReclaimPolicy |-> "", Labels |-> NoLabels]
PVObject(phase, ref, policy, labels) ==
    [Kind |-> "Object", Phase |-> phase, ClaimRef |-> ref,
     ReclaimPolicy |-> policy, Labels |-> labels]

\* What a Get of a PVC can answer.
PVCResponses ==
    {PVCNotFound, PVCError}
    \cup {PVCObject(ph, vn) : ph \in {"Pending", ClaimBound}, vn \in {"", "pv-new"}}

LabelSets ==
    {NoLabels,
     [k \in {"k1"} |-> "v1"],
     [k \in {"k1"} |-> "v2"],
     [k \in {"k1", "k2"} |-> "v1"]}

ClaimRefs == {NoClaimRef} \cup {ClaimRef(ns, n) : ns \in {NsA, NsB}, n \in {PvcP, PvcQ}}

\* What a Get of a PV can answer.
PVResponses ==
    {PVNotFound, PVError}
    \cup {PVObject("Pending", ref, "Delete", NoLabels) : ref \in ClaimRefs}
    \cup {PVObject(VolumeBound, NoClaimRef, "Delete", NoLabels)}
    \cup {PVObject(VolumeBound, ref, pol, l) :
            ref \in ClaimRefs \ {NoClaimRef}, pol \in {"Retain", "Delete"}, l \in LabelSets}

FullCluster == [pvcs |-> PVCResponses, pvs |-> PVResponses, patch |-> {"ok", "Error"}]

\* A cluster that answers every request, for the runs with many volumes:
\* the claim appears late, its volume is bound to it, with the recorded
\* labels or without them.
CalmCluster ==
    [pvcs |-> {PVCNotFound, PVCObject(ClaimBound, "pv-new")},
     pvs |-> {PVObject(VolumeBound, ClaimRef(NsA, PvcP), "Retain", l) :
                l \in {NoLabels, [k \in {"k1"} |-> "v1"]}},
     patch |-> {"ok"}]

\* ------------------------------------------------------------------------
\* State
\* ------------------------------------------------------------------------
VARIABLES
    stored,                 \* the Restore resource held by the API server
    results,                \* the restore results held by the backup store
    volumeInfo,             \* what GetBackupVolumeInfos returns
    restoredResourceList,   \* what GetRestoredResourceList returns
    namespaceMapping,       \* restore.Spec.NamespaceMapping
    cluster,                \* the answers the cluster API can give
    callsLeft,              \* Reconcile calls still to be made
    now,                    \* r.clock.Now()
    pc,                     \* where the Reconcile call stands
    ret,                    \* what the last Reconcile call returned
    io,                     \* calls made by the current Reconcile call
    original,               \* Reconcile: original
    restore,                \* Reconcile: restore (the working copy)
    workers,                \* arguments of the goroutines started
    wpc,                    \* where each goroutine stands
    werr,                   \* err of each goroutine's poll
    wpvc,                   \* pvc of the poll iteration that went on to the PV
    wpv,                    \* pv of the poll iteration that reached the validation
    wpatches,               \* PV patches issued by each goroutine
    semaphore,              \* elements held by the semaphore channel
    resultLock,             \* the goroutine holding resultLock, 0 when free
    pvWaitGroup,            \* counter of pvWaitGroup
    errs                    \* patchDynamicPVWithVolumeInfo: errs

inputs == <<volumeInfo, restoredResourceList, namespaceMapping, cluster>>
callVars == <<callsLeft, now, pc, ret, io, original, restore>>
poolVars == <<workers, wpc, werr, wpvc, wpv, wpatches, semaphore, resultLock, pvWaitGroup, errs>>
vars == <<stored, results, inputs, callVars, poolVars>>

NoRestore ==
    [Exists |-> FALSE, Phase |-> "", Warnings |-> 0, Errors |-> 0,
     CompletionTimestamp |-> 0]
\* No call made yet: backup is the answer of fetchBackupInfoInternal, reads and
\* writes count the calls to the backup store, patches those to patch the Restore.
NoIO == [backup |-> "none", reads |-> 0, writes |-> 0, patches |-> 0]
NoPV == PVNotFound
NoPVC == PVCNotFound

\* ------------------------------------------------------------------------
\* Reconcile, up to the start of the finalization tasks
\* ------------------------------------------------------------------------
\* A Reconcile call begins: the state of the previous call is gone.
BeginCall ==
    /\ pc = "idle"
    /\ callsLeft > 0
    /\ callsLeft' = callsLeft - 1
    /\ now' = now + 1

NoPool ==
    /\ workers' = <<>>
    /\ wpc' = <<>>
    /\ werr' = <<>>
    /\ wpvc' = <<>>
    /\ wpv' = <<>>
    /\ wpatches' = <<>>
    /\ semaphore' = 0
    /\ resultLock' = 0
    /\ pvWaitGroup' = 0
    /\ errs' = EmptyResult

\* The switch with the terminal phase PartiallyFailed among its cases.
AwaitingFinalizationOrPartiallyFailed(phase) ==
    phase \in {RestorePhaseFinalizing, RestorePhaseFinalizingPartiallyFailed,
               RestorePhasePartiallyFailed}

\* The switch on restore.Status.Phase.
AwaitingFinalization(phase) ==
    phase \in {RestorePhaseFinalizing, RestorePhaseFinalizingPartiallyFailed}

\* kubeutil.PatchResource(original, updated, client) on the Restore: the
\* fields that differ between original and updated are set on the server.
PatchRestore(server, orig, updated) ==
    [Exists |-> server.Exists,
     Phase |-> IF updated.Phase # orig.Phase THEN updated.Phase ELSE server.Phase,
     Warnings |-> IF updated.Warnings # orig.Warnings
                  THEN updated.Warnings ELSE server.Warnings,
     Errors |-> IF updated.Errors # orig.Errors THEN updated.Errors ELSE server.Errors,
     CompletionTimestamp |->
        IF updated.CompletionTimestamp # orig.CompletionTimestamp
        THEN updated.CompletionTimestamp ELSE server.CompletionTimestamp]

\* finishProcessing that takes every phase but Completed for Completed.
finishProcessingInverted(restorePhase, r, clock) ==
    [r EXCEPT
        !.Phase = IF restorePhase = RestorePhaseCompleted
                  THEN RestorePhasePartiallyFailed ELSE RestorePhaseCompleted,
        !.CompletionTimestamp = clock]

\* finishProcessing, up to the PatchResource call: the restore it submits.
finishProcessing(restorePhase, r, clock) ==
    [r EXCEPT
        !.Phase = IF restorePhase = RestorePhasePartiallyFailed
                  THEN RestorePhasePartiallyFailed ELSE RestorePhaseCompleted,
        !.CompletionTimestamp = clock]

\* r.Get fails with an error other than not-found.
ReconcileGetError ==
    /\ BeginCall
    /\ pc' = "idle"
    /\ ret' = "error getting restore"
    /\ io' = NoIO
    /\ original' = NoRestore
    /\ restore' = NoRestore
    /\ NoPool
    /\ UNCHANGED <<stored, results, inputs>>

\* r.Get answers not-found.
ReconcileNotFound ==
    /\ BeginCall
    /\ ~stored.Exists
    /\ pc' = "idle"
    /\ ret' = "ok"
    /\ io' = NoIO
    /\ original' = NoRestore
    /\ restore' = NoRestore
    /\ NoPool
    /\ UNCHANGED <<stored, results, inputs>>

\* The restore is not awaiting finalization.
ReconcileSkip ==
    /\ BeginCall
    /\ stored.Exists
    /\ ~AwaitingFinalization(stored.Phase)
    /\ pc' = "idle"
    /\ ret' = "ok"
    /\ io' = NoIO
    /\ original' = stored
    /\ restore' = stored
    /\ NoPool
    /\ UNCHANGED <<stored, results, inputs>>

\* fetchBackupInfoInternal answers not-found: finishProcessing(PartiallyFailed).
ReconcileBackupNotFound ==
    /\ BeginCall
    /\ stored.Exists
    /\ AwaitingFinalization(stored.Phase)
    /\ \E patched \in BOOLEAN :
        LET updated == finishProcessing(RestorePhasePartiallyFailed, stored, now')
        IN /\ original' = stored
           /\ restore' = updated
           /\ io' = [NoIO EXCEPT !.backup = "notfound", !.patches = 1]
           /\ IF patched
              THEN /\ stored' = PatchRestore(stored, stored, updated)
                   /\ ret' = "ok"
              ELSE /\ stored' = stored
                   /\ ret' = "error updating restore's final status"
    /\ pc' = "idle"
    /\ NoPool
    /\ UNCHANGED <<results, inputs>>

\* The reads before the finalization tasks, in the order of the code, with
\* the number of backup store reads made when the read fails.
FetchErrors ==
    {<<"error getting backup info", 0, "error">>,
     <<"error getting backup store", 0, "found">>,
     <<"error getting volumeInfo", 1, "found">>,
     <<"error getting restoredResourceList", 2, "found">>}

\* Every error of fetchBackupInfoInternal handled as not-found is: the restore
\* is finished as PartiallyFailed although the call returns the error.
ReconcileFetchErrorFinishes ==
    /\ BeginCall
    /\ stored.Exists
    /\ AwaitingFinalization(stored.Phase)
    /\ \E f \in FetchErrors :
        /\ ret' = f[1]
        /\ io' = [NoIO EXCEPT !.backup = f[3], !.reads = f[2], !.patches = 1]
    /\ pc' = "idle"
    /\ original' = stored
    /\ restore' = finishProcessing(RestorePhasePartiallyFailed, stored, now')
    /\ stored' = PatchRestore(stored, stored, restore')
    /\ NoPool
    /\ UNCHANGED <<results, inputs>>

\* One of the reads before the finalization tasks fails.
ReconcileFetchError ==
    /\ BeginCall
    /\ stored.Exists
    /\ AwaitingFinalization(stored.Phase)
    /\ \E f \in FetchErrors :
        /\ ret' = f[1]
        /\ io' = [NoIO EXCEPT !.backup = f[3], !.reads = f[2]]
    /\ pc' = "idle"
    /\ original' = stored
    /\ restore' = stored
    /\ NoPool
    /\ UNCHANGED <<stored, results, inputs>>

\* ------------------------------------------------------------------------
\* patchDynamicPVWithVolumeInfo: the loop that starts the goroutines
\* ------------------------------------------------------------------------
\* The first condition of the loop body.
HasMethodAndPVInfo(volumeItem) ==
    /\ \/ volumeItem.BackupMethod = PodVolumeBackup
       \/ volumeItem.BackupMethod = CSISnapshot
    /\ volumeItem.PVInfo # NilPVInfo

\* restoredNamespace without the namespace mapping.
RestoredNamespaceUnmapped(volumeItem, mapping) == volumeItem.PVCNamespace

\* restoredNamespace of a volume.
RestoredNamespace(volumeItem, mapping) ==
    IF volumeItem.PVCNamespace \in DOMAIN mapping
    THEN mapping[volumeItem.PVCNamespace]
    ELSE volumeItem.PVCNamespace

\* A goroutine is started for the volume.
StartsWorker(volumeItem, mapping, restoredPVCList) ==
    /\ HasMethodAndPVInfo(volumeItem)
    /\ PVCKeyOf(RestoredNamespace(volumeItem, mapping), volumeItem.PVCName)
            \in restoredPVCList

\* The arguments of the goroutines the loop starts, in the order of the list.
RECURSIVE StartedWorkers(_, _, _)
StartedWorkers(vols, mapping, restoredPVCList) ==
    IF vols = <<>> THEN <<>>
    ELSE LET volumeItem == Head(vols)
             rest == StartedWorkers(Tail(vols), mapping, restoredPVCList)
         IN IF StartsWorker(volumeItem, mapping, restoredPVCList)
            THEN <<[volInfo |-> volumeItem,
                    restoredNamespace |-> RestoredNamespace(volumeItem, mapping)]>>
                 \o rest
            ELSE rest

\* All reads succeed; execute() starts patchDynamicPVWithVolumeInfo, whose
\* loop starts one goroutine per selected volume.
ReconcileExecute ==
    /\ BeginCall
    /\ stored.Exists
    /\ AwaitingFinalization(stored.Phase)
    /\ LET restoredPVCList == getRestoredPVCFromRestoredResourceList(restoredResourceList)
           started == StartedWorkers(volumeInfo, namespaceMapping, restoredPVCList)
           n == Len(started)
       IN /\ workers' = started
          /\ wpc' = [i \in 1..n |-> "start"]
          /\ werr' = [i \in 1..n |-> "nil"]
          /\ wpvc' = [i \in 1..n |-> NoPVC]
          /\ wpv' = [i \in 1..n |-> NoPV]
          /\ wpatches' = [i \in 1..n |-> 0]
          /\ pvWaitGroup' = n
    /\ semaphore' = 0
    /\ resultLock' = 0
    /\ errs' = EmptyResult
    /\ pc' = "running"
    /\ ret' = "none"
    /\ io' = [NoIO EXCEPT !.backup = "found", !.reads = 2]
    /\ original' = stored
    /\ restore' = stored
    /\ UNCHANGED <<stored, results, inputs>>

\* ------------------------------------------------------------------------
\* The goroutine of one volume
\* ------------------------------------------------------------------------
Workers == 1..Len(workers)

ErrDeadline == "context deadline exceeded"
ErrUnexpectedPVC == "PV was bound by unexpected PVC"
ErrAPI == "api error"

\* The poll of goroutine i ends with err, or goes on when err is "retry".
PollEnds(i, err) ==
    /\ wpc' = [wpc EXCEPT ![i] =
                  CASE err = "nil" -> "ok"
                    [] err = "retry" -> "wait"
                    [] OTHER -> "failed"]
    /\ werr' = [werr EXCEPT ![i] = IF err = "retry" THEN "nil" ELSE err]

\* A semaphore with room for one element more than maxConcurrency.
SemaphoreHasRoomOffByOne == semaphore <= maxConcurrency

\* A send on the semaphore channel does not block.
SemaphoreHasRoom == semaphore < maxConcurrency

\* semaphore <- struct{}{}
Acquire(i) ==
    /\ wpc[i] = "start"
    /\ SemaphoreHasRoom
    /\ semaphore' = semaphore + 1
    /\ wpc' = [wpc EXCEPT ![i] = "getPVC"]
    /\ UNCHANGED <<stored, results, inputs, callVars>>
    /\ UNCHANGED <<workers, wpvc, werr, wpv, wpatches, resultLock, pvWaitGroup, errs>>

\* A PVC taken for ready as soon as it is Bound.
PVCNotReadyPhaseOnly(pvc) == pvc.Phase # ClaimBound

\* pvc.Status.Phase != v1.ClaimBound || pvc.Spec.VolumeName == ""
PVCNotReady(pvc) == pvc.Phase # ClaimBound \/ pvc.VolumeName = ""

\* pv.Spec.ClaimRef == nil || pv.Status.Phase != v1.VolumeBound
PVNotReady(pv) == ~pv.ClaimRef.Set \/ pv.Phase # VolumeBound

\* The poll condition, from the Get of the PVC to the check of its phase.
GetPVC(i) ==
    /\ wpc[i] = "getPVC"
    /\ \E pvc \in cluster.pvcs :
        IF pvc.Kind = "NotFound" THEN PollEnds(i, "retry") /\ wpvc' = wpvc
        ELSE IF pvc.Kind = "Error" THEN PollEnds(i, ErrAPI) /\ wpvc' = wpvc
        ELSE IF PVCNotReady(pvc) THEN PollEnds(i, "retry") /\ wpvc' = wpvc
        ELSE /\ wpc' = [wpc EXCEPT ![i] = "getPV"]
             /\ werr' = werr
             /\ wpvc' = [wpvc EXCEPT ![i] = pvc]
    /\ UNCHANGED <<stored, results, inputs, callVars>>
    /\ UNCHANGED <<workers, wpv, wpatches, semaphore, resultLock, pvWaitGroup, errs>>

\* The validation of the claim reference by name alone.
UnexpectedPVCByName(pv, w) == pv.ClaimRef.Name # w.volInfo.PVCName

\* pv.Spec.ClaimRef.Name != pvc.Name || pv.Spec.ClaimRef.Namespace != restoredNamespace
\* (pvc.Name is the name the PVC was fetched by).
UnexpectedPVC(pv, w) ==
    \/ pv.ClaimRef.Name # w.volInfo.PVCName
    \/ pv.ClaimRef.Namespace # w.restoredNamespace

\* The iteration of the poll of goroutine i ends before the validation: its
\* pvc and pv are gone.
IterationEnds(i) ==
    /\ wpvc' = [wpvc EXCEPT ![i] = NoPVC]
    /\ wpv' = wpv

\* The poll condition, from the Get of the PV to the patch decision.
GetPV(i) ==
    /\ wpc[i] = "getPV"
    /\ \E pv \in cluster.pvs :
        IF pv.Kind = "NotFound" THEN PollEnds(i, "retry") /\ IterationEnds(i)
        ELSE IF pv.Kind = "Error" THEN PollEnds(i, ErrAPI) /\ IterationEnds(i)
        ELSE IF PVNotReady(pv) THEN PollEnds(i, "retry") /\ IterationEnds(i)
        ELSE IF UnexpectedPVC(pv, workers[i])
            THEN /\ PollEnds(i, ErrUnexpectedPVC)
                 /\ wpv' = [wpv EXCEPT ![i] = pv]
                 /\ wpvc' = wpvc
        ELSE IF needPatch(pv, workers[i].volInfo.PVInfo[1])
            THEN /\ wpc' = [wpc EXCEPT ![i] = "patch"]
                 /\ werr' = werr
                 /\ wpv' = [wpv EXCEPT ![i] = pv]
                 /\ wpvc' = wpvc
        ELSE /\ PollEnds(i, "nil")
             /\ wpv' = [wpv EXCEPT ![i] = pv]
             /\ wpvc' = wpvc
    /\ UNCHANGED <<stored, results, inputs, callVars>>
    /\ UNCHANGED <<workers, wpatches, semaphore, resultLock, pvWaitGroup, errs>>

\* updatedPV with the recorded labels added to those of pv.
UpdatedPVAddsLabels(pv, pvInfo) ==
    [pv EXCEPT
        !.Labels = [k \in (DOMAIN pv.Labels) \cup (DOMAIN pvInfo.Labels) |->
                        IF k \in DOMAIN pvInfo.Labels
                        THEN pvInfo.Labels[k] ELSE pv.Labels[k]],
        !.ReclaimPolicy = pvInfo.ReclaimPolicy]

\* updatedPV: the copy of pv with the labels and reclaim policy of PVInfo.
UpdatedPV(pv, pvInfo) ==
    [pv EXCEPT !.Labels = pvInfo.Labels, !.ReclaimPolicy = pvInfo.ReclaimPolicy]

\* kubeutil.PatchResource(pv, updatedPV, ctx.crClient)
PatchPV(i) ==
    /\ wpc[i] = "patch"
    /\ wpatches' = [wpatches EXCEPT ![i] = @ + 1]
    /\ \E answer \in cluster.patch :
        IF answer = "ok"
        THEN /\ PollEnds(i, "nil")
             /\ wpv' = [wpv EXCEPT ![i] = UpdatedPV(wpv[i], workers[i].volInfo.PVInfo[1])]
        ELSE /\ PollEnds(i, ErrAPI)
             /\ wpv' = [wpv EXCEPT ![i] = NoPV]
    /\ UNCHANGED <<stored, results, inputs, callVars>>
    /\ UNCHANGED <<workers, wpvc, semaphore, resultLock, pvWaitGroup, errs>>

\* The poll interval elapses: the condition is tried again.
PollTick(i) ==
    /\ wpc[i] = "wait"
    /\ wpc' = [wpc EXCEPT ![i] = "getPVC"]
    /\ UNCHANGED <<stored, results, inputs, callVars>>
    /\ UNCHANGED <<workers, wpvc, werr, wpv, wpatches, semaphore, resultLock, pvWaitGroup, errs>>

\* PVPatchMaximumDuration elapses while the poll waits.
PollTimeout(i) ==
    /\ wpc[i] = "wait"
    /\ PollEnds(i, ErrDeadline)
    /\ UNCHANGED <<stored, results, inputs, callVars>>
    /\ UNCHANGED <<workers, wpvc, wpv, wpatches, semaphore, resultLock, pvWaitGroup, errs>>

\* The failure branch entered without waiting for resultLock.
LockResultNoWait(i) ==
    /\ wpc[i] = "failed"
    /\ resultLock' = i
    /\ wpc' = [wpc EXCEPT ![i] = "locked"]
    /\ wpv' = [wpv EXCEPT ![i] = NoPV]
    /\ wpvc' = [wpvc EXCEPT ![i] = NoPVC]
    /\ UNCHANGED <<stored, results, inputs, callVars>>
    /\ UNCHANGED <<workers, werr, wpatches, semaphore, pvWaitGroup, errs>>

\* resultLock.Lock()
LockResult(i) ==
    /\ wpc[i] = "failed"
    /\ resultLock = 0
    /\ resultLock' = i
    /\ wpc' = [wpc EXCEPT ![i] = "locked"]
    /\ wpv' = [wpv EXCEPT ![i] = NoPV]
    /\ wpvc' = [wpvc EXCEPT ![i] = NoPVC]
    /\ UNCHANGED <<stored, results, inputs, callVars>>
    /\ UNCHANGED <<workers, werr, wpatches, semaphore, pvWaitGroup, errs>>

\* fmt.Errorf("fail to patch dynamic PV, err: %s, PVC: %s, PV: %s", ...)
PatchError(err, volInfo) ==
    [err |-> err, PVC |-> volInfo.PVCName, PV |-> volInfo.PVName]

\* AddError under the namespace of the backed-up PVC.
AddErrorSourceNamespace(i) ==
    /\ wpc[i] = "locked"
    /\ errs' = ResultAdd(errs, workers[i].volInfo.PVCNamespace,
                         PatchError(werr[i], workers[i].volInfo))
    /\ wpc' = [wpc EXCEPT ![i] = "added"]
    /\ UNCHANGED <<stored, results, inputs, callVars>>
    /\ UNCHANGED <<workers, wpvc, werr, wpv, wpatches, semaphore, resultLock, pvWaitGroup>>

\* errs.Add(restoredNamespace, err)
AddError(i) ==
    /\ wpc[i] = "locked"
    /\ errs' = ResultAdd(errs, workers[i].restoredNamespace,
                         PatchError(werr[i], workers[i].volInfo))
    /\ wpc' = [wpc EXCEPT ![i] = "added"]
    /\ UNCHANGED <<stored, results, inputs, callVars>>
    /\ UNCHANGED <<workers, wpvc, werr, wpv, wpatches, semaphore, resultLock, pvWaitGroup>>

\* <-semaphore
Release(i) ==
    /\ wpc[i] \in {"ok", "added"}
    /\ semaphore > 0
    /\ semaphore' = semaphore - 1
    /\ wpc' = [wpc EXCEPT ![i] = "exit"]
    /\ wpv' = [wpv EXCEPT ![i] = NoPV]
    /\ wpvc' = [wpvc EXCEPT ![i] = NoPVC]
    /\ UNCHANGED <<stored, results, inputs, callVars>>
    /\ UNCHANGED <<workers, werr, wpatches, resultLock, pvWaitGroup, errs>>

\* The deferred Unlock left out: the goroutine goes on to Done with the lock.
UnlockKeepsLock(i) ==
    /\ wpc[i] = "exit"
    /\ werr[i] # "nil"
    /\ wpc' = [wpc EXCEPT ![i] = "unlocked"]
    /\ UNCHANGED <<stored, results, inputs, callVars>>
    /\ UNCHANGED <<workers, wpvc, werr, wpv, wpatches, semaphore, resultLock,
                   pvWaitGroup, errs>>

\* The goroutine function returns from its failure branch: the deferred
\* resultLock.Unlock() runs first.
Unlock(i) ==
    /\ wpc[i] = "exit"
    /\ werr[i] # "nil"
    /\ resultLock' = 0
    /\ wpc' = [wpc EXCEPT ![i] = "unlocked"]
    /\ UNCHANGED <<stored, results, inputs, callVars>>
    /\ UNCHANGED <<workers, wpvc, werr, wpv, wpatches, semaphore, pvWaitGroup, errs>>

\* The deferred pvWaitGroup.Done(): the last step of the goroutine, after the
\* Unlock when the failure branch deferred one.
Return(i) ==
    /\ \/ wpc[i] = "unlocked"
       \/ wpc[i] = "exit" /\ werr[i] = "nil"
    /\ pvWaitGroup' = pvWaitGroup - 1
    /\ wpc' = [wpc EXCEPT ![i] = "done"]
    /\ UNCHANGED <<stored, results, inputs, callVars>>
    /\ UNCHANGED <<workers, wpvc, werr, wpv, wpatches, semaphore, resultLock, errs>>

\* ------------------------------------------------------------------------
\* Reconcile, from the end of the finalization tasks
\* ------------------------------------------------------------------------
\* execute(): the results of the tasks merged into empty results.
ExecuteWarnings == EmptyResult
ExecuteErrs(pdpErrs) == ResultMerge(EmptyResult, pdpErrs)

\* Counted without the switch to FinalizingPartiallyFailed.
CountedKeepsPhase(r, warnings, errsOut) ==
    [r EXCEPT
        !.Warnings = @ + ResultCount(warnings),
        !.Errors = @ + ResultCount(errsOut)]

\* The working copy after the counts and the phase are updated.
Counted(r, warnings, errsOut) ==
    [r EXCEPT
        !.Warnings = @ + ResultCount(warnings),
        !.Errors = @ + ResultCount(errsOut),
        !.Phase = IF ~ResultIsEmpty(errsOut)
                  THEN RestorePhaseFinalizingPartiallyFailed ELSE @]

\* finalPhase
FinalPhase(r) ==
    IF r.Phase = RestorePhaseFinalizingPartiallyFailed
    THEN RestorePhasePartiallyFailed
    ELSE RestorePhaseCompleted

\* updateResults that puts the new results without those read.
MergedResultsOverwrite(originResults, newWarnings, newErrs) ==
    [warnings |-> newWarnings, errors |-> newErrs]

\* updateResults: what putResults is given.
MergedResults(originResults, newWarnings, newErrs) ==
    [warnings |-> ResultMerge(originResults.warnings, newWarnings),
     errors |-> ResultMerge(originResults.errors, newErrs)]

\* A Wait that does not wait for the goroutines.
WaitSkipped == TRUE

\* The results are updated whatever the counts.
NeedsUpdateAlways(warnings, errsOut) == TRUE

\* warningCnt > 0 || errCnt > 0
NeedsUpdate(warnings, errsOut) ==
    ResultCount(warnings) > 0 \/ ResultCount(errsOut) > 0

\* pvWaitGroup.Wait() does not block.
WaitReturns == pvWaitGroup = 0

\* pvWaitGroup.Wait() returns; the rest of Reconcile runs.
ReconcileFinish ==
    /\ pc = "running"
    /\ WaitReturns
    /\ pc' = "idle"
    /\ LET warnings == ExecuteWarnings
           errsOut == ExecuteErrs(errs)
           counted == Counted(restore, warnings, errsOut)
           update == NeedsUpdate(warnings, errsOut)
           final == finishProcessing(FinalPhase(counted), counted, now)
       IN \/ /\ update
             /\ \E f \in {<<"error getting restore results", 0>>,
                          <<"error putting restore results", 1>>} :
                  /\ ret' = "error updating results"
                  /\ io' = [io EXCEPT !.reads = @ + 1, !.writes = @ + f[2]]
             /\ restore' = counted
             /\ UNCHANGED <<stored, results>>
          \/ /\ restore' = final
             /\ results' = IF update THEN MergedResults(results, warnings, errsOut)
                           ELSE results
             /\ \E patched \in BOOLEAN :
                  /\ io' = [io EXCEPT !.reads = @ + (IF update THEN 1 ELSE 0),
                                      !.writes = @ + (IF update THEN 1 ELSE 0),
                                      !.patches = @ + 1]
                  /\ IF patched
                     THEN /\ stored' = PatchRestore(stored, original, final)
                          /\ ret' = "ok"
                     ELSE /\ stored' = stored
                          /\ ret' = "error updating restore's final status"
    /\ UNCHANGED <<inputs, callsLeft, now, original, poolVars>>

\* ------------------------------------------------------------------------
\* Initial states
\* ------------------------------------------------------------------------
\* A message stored by the restore before its finalization.
Message(text) == [err |-> text, PVC |-> <<>>, PV |-> ""]

Restores ==
    {NoRestore}
    \cup {[Exists |-> TRUE, Phase |-> ph, Warnings |-> w, Errors |-> e,
           CompletionTimestamp |->
              IF ph \in {RestorePhaseCompleted, RestorePhasePartiallyFailed}
              THEN 1 ELSE 0] :
            ph \in RestorePhases, w \in 0..MaxCount, e \in 0..MaxCount}

StoredResults ==
    {[warnings |-> EmptyResult, errors |-> EmptyResult],
     [warnings |-> [EmptyResult EXCEPT !.Cluster = <<Message("warned")>>],
      errors |-> ResultAdd(EmptyResult, NsA, Message("failed"))]}

VolumePool ==
    {VolumeItem(PodVolumeBackup, NsA, PvcP, <<PVInfoRetainK1>>),
     VolumeItem(CSISnapshot, NsA, PvcQ, <<PVInfoDeletePlain>>),
     VolumeItem(NativeSnapshot, NsA, PvcP, <<PVInfoRetainK1>>),
     VolumeItem(PodVolumeBackup, NsA, PvcP, NilPVInfo)}

VolumeLists == {<<>>} \cup {<<v>> : v \in VolumePool}

Inventories ==
    {[k \in {"v1/Pod"} |-> <<InventoryEntry(NsA, PvcP, ItemRestoreResultCreated)>>],
     [k \in {pvcKey} |-> <<InventoryEntry(NsA, PvcP, ItemRestoreResultCreated),
                           InventoryEntry(NsA, PvcQ, ItemRestoreResultCreated)>>],
     [k \in {pvcKey} |-> <<InventoryEntry(NsB, PvcP, ItemRestoreResultCreated),
                           InventoryEntry(NsA, PvcQ, StatusSkipped)>>]}

NamespaceMappings == {<<>>, [n \in {NsA} |-> NsB]}

InitCall ==
    /\ now = 1
    /\ pc = "idle"
    /\ ret = "none"
    /\ io = NoIO
    /\ original = NoRestore
    /\ restore = NoRestore
    /\ workers = <<>>
    /\ wpc = <<>>
    /\ werr = <<>>
    /\ wpvc = <<>>
    /\ wpv = <<>>
    /\ wpatches = <<>>
    /\ semaphore = 0
    /\ resultLock = 0
    /\ pvWaitGroup = 0
    /\ errs = EmptyResult

Init ==
    /\ stored \in Restores
    /\ results \in StoredResults
    /\ volumeInfo \in VolumeLists
    /\ restoredResourceList \in Inventories
    /\ namespaceMapping \in NamespaceMappings
    /\ cluster = FullCluster
    /\ callsLeft = MaxCalls
    /\ InitCall

\* NumBurst selected volumes of one claim, reconciled once.
BurstVolumes ==
    [j \in 1..NumBurst |->
        VolumeItem(IF j % 2 = 1 THEN PodVolumeBackup ELSE CSISnapshot,
                   NsA, PvcP, <<PVInfoRetainK1>>)]

InitBurst ==
    /\ stored \in {r \in Restores : r.Warnings = 0 /\ r.Errors = 0}
    /\ results = [warnings |-> EmptyResult, errors |-> EmptyResult]
    /\ volumeInfo = BurstVolumes
    /\ restoredResourceList =
          [k \in {pvcKey} |-> <<InventoryEntry(NsA, PvcP, ItemRestoreResultCreated)>>]
    /\ namespaceMapping = <<>>
    /\ cluster = CalmCluster
    /\ callsLeft = 1
    /\ InitCall

\* Two selected volumes of different claims, reconciled once, on a cluster
\* that can give every answer.
PairVolumes ==
    <<VolumeItem(PodVolumeBackup, NsA, PvcP, <<PVInfoRetainK1>>),
      VolumeItem(CSISnapshot, NsB, PvcQ, <<PVInfoDeletePlain>>)>>

InitPair ==
    /\ stored \in Restores
    /\ results \in StoredResults
    /\ volumeInfo = PairVolumes
    /\ restoredResourceList =
          [k \in {pvcKey} |-> <<InventoryEntry(NsA, PvcP, ItemRestoreResultCreated),
                                InventoryEntry(NsB, PvcP, ItemRestoreResultCreated),
                                InventoryEntry(NsB, PvcQ, ItemRestoreResultCreated)>>]
    /\ namespaceMapping \in NamespaceMappings
    /\ cluster = FullCluster
    /\ callsLeft = 1
    /\ InitCall

\* The pieces of the inventory entries: a namespace/name key, status groups,
\* and the characters and words they are made of.
EntryPieces ==
    {PVCKeyOf(NsA, PvcP),
     <<"(">> \o ItemRestoreResultCreated \o <<")">>,
     <<"(", "x", ")">>,
     <<"(">>, <<")">>, <<"x">>,
     ItemRestoreResultCreated}

RECURSIVE Concat(_)
Concat(pieces) ==
    IF pieces = <<>> THEN <<>> ELSE Head(pieces) \o Concat(Tail(pieces))

\* The entries of 1 to MaxPieces pieces.
Entries ==
    UNION {{Concat(ps) : ps \in [1..n -> EntryPieces]} : n \in 1..MaxPieces}

\* Inventories of one entry, under the key of the PVCs or under another key,
\* and inventories of several entries in the documented format.
EntryInventories ==
    {[k \in {key} |-> <<e>>] : key \in {pvcKey, "v1/Pod"}, e \in Entries}
    \cup {[k \in {pvcKey, "v1/Pod"} |->
             IF k = pvcKey
             THEN <<InventoryEntry(NsA, PvcQ, StatusSkipped),
                    PVCKeyOf(NsA, PvcP) \o <<"(", "x", ")">>
                        \o <<"(">> \o ItemRestoreResultCreated \o <<")">>,
                    InventoryEntry(NsA, PvcP, st)>>
             ELSE <<InventoryEntry(NsA, PvcQ, ItemRestoreResultCreated)>>] :
           st \in {ItemRestoreResultCreated, StatusSkipped}}

\* One volume of claim a/p, reconciled once, with every inventory.
InitInventory ==
    /\ stored \in {r \in Restores :
                      /\ r.Warnings = 0 /\ r.Errors = 0
                      /\ r.Phase \in {"", "InProgress", RestorePhaseFinalizing}}
    /\ results = [warnings |-> EmptyResult, errors |-> EmptyResult]
    /\ volumeInfo = <<VolumeItem(PodVolumeBackup, NsA, PvcP, <<PVInfoRetainK1>>)>>
    /\ restoredResourceList \in EntryInventories
    /\ namespaceMapping = <<>>
    /\ cluster = CalmCluster
    /\ callsLeft = 1
    /\ InitCall

\* ------------------------------------------------------------------------
\* Specifications
\* ------------------------------------------------------------------------
Next ==
    \/ ReconcileGetError
    \/ ReconcileNotFound
    \/ ReconcileSkip
    \/ ReconcileBackupNotFound
    \/ ReconcileFetchError
    \/ ReconcileExecute
    \/ \E i \in Workers : Acquire(i)
    \/ \E i \in Workers : GetPVC(i)
    \/ \E i \in Workers : GetPV(i)
    \/ \E i \in Workers : PatchPV(i)
    \/ \E i \in Workers : PollTick(i)
    \/ \E i \in Workers : PollTimeout(i)
    \/ \E i \in Workers : LockResult(i)
    \/ \E i \in Workers : AddError(i)
    \/ \E i \in Workers : Release(i)
    \/ \E i \in Workers : Unlock(i)
    \/ \E i \in Workers : Return(i)
    \/ ReconcileFinish

Spec == Init /\ [][Next]_vars

SpecBurst == InitBurst /\ [][Next]_vars

SpecPair == InitPair /\ [][Next]_vars

SpecInventory == InitInventory /\ [][Next]_vars

\* A step of goroutine i other than those of the poll's timer.
WorkerStep(i) ==
    /\ i \in Workers
    /\ \/ Acquire(i) \/ GetPVC(i) \/ GetPV(i) \/ PatchPV(i)
       \/ LockResult(i) \/ AddError(i) \/ Release(i) \/ Unlock(i) \/ Return(i)

\* The context of the poll of goroutine i is done.
DeadlineElapses(i) == i \in Workers /\ PollTimeout(i)

\* The Go scheduler runs every goroutine that can run, the calls to the
\* cluster API return, and the context of a poll that goes on trying is
\* done after PVPatchMaximumDuration.
Fairness ==
    /\ \A i \in 1..NumBurst : WF_vars(WorkerStep(i))
    /\ \A i \in 1..NumBurst : SF_vars(DeadlineElapses(i))
    /\ WF_vars(ReconcileFinish)

SpecBurstFair == InitBurst /\ [][Next]_vars /\ Fairness

\* ------------------------------------------------------------------------
\* Properties
\* ------------------------------------------------------------------------
FinalizingPhases == {"Finalizing", "FinalizingPartiallyFailed"}

\* The Reconcile call that ended last found the restore awaiting finalization.
EnteredFinalizing == original.Exists /\ original.Phase \in FinalizingPhases

\* The Reconcile call that ended last returned success.
EndedWell == pc = "idle" /\ ret = "ok"

\* The finalization tasks of the call returned at least one error.
TasksReturnedErrors ==
    \/ Len(errs.Velero) > 0
    \/ Len(errs.Cluster) > 0
    \/ \E n \in DOMAIN errs.Namespaces : Len(errs.Namespaces[n]) > 0

\* C1, as stated: a Reconcile call that ends with success on a restore that
\* was awaiting finalization has written PartiallyFailed when the restore
\* entered in FinalizingPartiallyFailed or the tasks returned an error, and
\* Completed otherwise, together with the completion timestamp.
C1_PhaseByEntryAndErrorsOnly ==
    (EndedWell /\ EnteredFinalizing) =>
        /\ stored.Phase =
              IF original.Phase = "FinalizingPartiallyFailed" \/ TasksReturnedErrors
              THEN "PartiallyFailed" ELSE "Completed"
        /\ stored.CompletionTimestamp = now

\* C1, amended: the phase written is PartiallyFailed also when the backup of
\* the restore was not found; it is Completed only when the backup was found,
\* the restore entered in Finalizing and the tasks returned no error. The
\* completion timestamp is written with the phase.
C1_FinalPhase ==
    (EndedWell /\ EnteredFinalizing) =>
        /\ stored.Phase =
              IF \/ original.Phase = "FinalizingPartiallyFailed"
                 \/ TasksReturnedErrors
                 \/ io.backup = "notfound"
              THEN "PartiallyFailed" ELSE "Completed"
        /\ stored.CompletionTimestamp = now
        /\ original.CompletionTimestamp # now

\* A restore that entered in Finalizing, whose task returned an error, ended
\* PartiallyFailed.
C1_Witness ==
    /\ EndedWell
    /\ original.Exists
    /\ original.Phase = "Finalizing"
    /\ io.backup = "found"
    /\ TasksReturnedErrors
    /\ stored.Phase = "PartiallyFailed"
    /\ stored.CompletionTimestamp = now

\* C2, as stated: a Reconcile call on a restore that does not exist or is
\* not in Finalizing or FinalizingPartiallyFailed returns success and changes
\* nothing: no patch of the restore, no goroutine, no read or write of the
\* backup store; and a restore in Completed or PartiallyFailed never changes.
C2_NoOpAlwaysSucceeds ==
    [][/\ ( /\ callsLeft' = callsLeft - 1
            /\ (~stored.Exists \/ stored.Phase \notin FinalizingPhases) )
          => ( /\ ret' = "ok"
               /\ pc' = "idle"
               /\ stored' = stored
               /\ results' = results
               /\ io' = NoIO
               /\ workers' = <<>> )
       /\ ( stored.Exists /\ stored.Phase \in {"Completed", "PartiallyFailed"} )
          => stored' = stored
      ]_vars

\* C2, amended: such a call changes nothing: no patch of the restore, no
\* goroutine, no read or write of the backup store; it returns success, or
\* the error of the Get of the restore when that Get fails otherwise than
\* with not-found; and a restore in Completed or PartiallyFailed never
\* changes.
C2_NoOp ==
    [][/\ ( /\ callsLeft' = callsLeft - 1
            /\ (~stored.Exists \/ stored.Phase \notin FinalizingPhases) )
          => ( /\ ret' \in {"ok", "error getting restore"}
               /\ ret' = "error getting restore" => original' = NoRestore
               /\ pc' = "idle"
               /\ stored' = stored
               /\ results' = results
               /\ io' = NoIO
               /\ workers' = <<>> )
       /\ ( stored.Exists /\ stored.Phase \in {"Completed", "PartiallyFailed"} )
          => stored' = stored
      ]_vars

\* A restore that an earlier call of this run left PartiallyFailed has been
\* reconciled again.
C2_Witness ==
    /\ EndedWell
    /\ original.Exists
    /\ original.Phase = "PartiallyFailed"
    /\ original.CompletionTimestamp > 1
    /\ now > original.CompletionTimestamp
    /\ stored = original
    /\ io = NoIO

\* Goroutines that hold a slot of the semaphore.
SlotHolders ==
    {i \in Workers :
        wpc[i] \in {"getPVC", "getPV", "patch", "wait", "ok", "failed", "locked", "added"}}

\* Goroutines inside the poll: about to get the PVC or the PV, about to patch
\* the PV, or waiting for the next poll tick.
Polling == {i \in Workers : wpc[i] \in {"getPVC", "getPV", "patch", "wait"}}

\* C3: at no moment are more than 3 goroutines inside their poll, whatever
\* the number of selected volumes; a goroutine enters only with a slot, and
\* no more than 3 slots are held.
C3_AtMostThreeInFlight ==
    /\ Cardinality(Polling) <= 3
    /\ Cardinality(SlotHolders) <= 3
    /\ semaphore = Cardinality(SlotHolders)

\* Three goroutines are polling while another one waits for a slot.
C3_Witness ==
    /\ Cardinality(Polling) = 3
    /\ \E i \in Workers : wpc[i] = "start"
    /\ Len(workers) > 3

\* The goroutines whose poll ended with an error.
FailedWorkers == {i \in Workers : werr[i] # "nil"}

\* The finalization tasks of the call that ended last have run to their end.
TasksRan ==
    /\ pc = "idle"
    /\ io.backup = "found"
    /\ ret \in {"ok", "error updating results", "error updating restore's final status"}

\* C4: while a goroutine has not finished, Reconcile has not gone past the
\* task: nothing is written to the backup store and the restore is not
\* patched; when Reconcile has returned every goroutine has finished, and
\* the errors the task returned hold one entry for every failed goroutine.
C4_Join ==
    /\ (\E i \in Workers : wpc[i] # "done") =>
          /\ pc = "running"
          /\ io.writes = 0
          /\ io.patches = 0
          /\ stored = original
    /\ pc = "idle" => \A i \in Workers : wpc[i] = "done"
    /\ TasksRan => ResultCount(errs) = Cardinality(FailedWorkers)

\* Reconcile has returned after a task with more goroutines than slots, of
\* which some failed, and has persisted the results.
C4_Witness ==
    /\ TasksRan
    /\ Len(workers) > 3
    /\ Cardinality(FailedWorkers) >= 2
    /\ Cardinality(FailedWorkers) < Len(workers)
    /\ io.writes = 1
    /\ ret = "ok"

\* The namespace the PVC of goroutine i is restored to.
RemappedNamespace(i) ==
    LET ns == workers[i].volInfo.PVCNamespace
    IN IF ns \in DOMAIN namespaceMapping THEN namespaceMapping[ns] ELSE ns

\* The entries of namespace ns in errs that name the PVC of goroutine i.
EntriesOf(i, ns) ==
    {k \in 1..Len(NsEntries(errs, ns)) :
        NsEntries(errs, ns)[k].PVC = workers[i].volInfo.PVCName}

\* Goroutine i has been through errs.Add.
Recorded(i) == werr[i] # "nil" /\ wpc[i] \in {"added", "exit", "unlocked", "done"}

\* C5: a goroutine that failed has exactly one entry in errs, under its
\* restored namespace, with whatever error its poll ended; one that has not
\* failed has none; and after the tasks the Errors count of the restore has
\* grown by the number of failed goroutines, which ends PartiallyFailed as
\* soon as one failed.
C5_OneEntryPerFailure ==
    /\ \A i \in Workers : \A ns \in {NsA, NsB} :
          Cardinality(EntriesOf(i, ns)) =
              IF Recorded(i) /\ ns = RemappedNamespace(i) THEN 1 ELSE 0
    /\ Len(errs.Velero) = 0
    /\ Len(errs.Cluster) = 0
    /\ DOMAIN errs.Namespaces \subseteq {NsA, NsB}
    /\ TasksRan => restore.Errors = original.Errors + Cardinality(FailedWorkers)
    /\ (TasksRan /\ ret = "ok") =>
          /\ stored.Errors = original.Errors + Cardinality(FailedWorkers)
          /\ FailedWorkers # {} => stored.Phase = "PartiallyFailed"

\* Of two selected volumes one was found in order without a patch and the
\* other never became bound: PartiallyFailed, one more error, one entry in
\* the namespace the failed volume was restored to.
C5_Witness ==
    /\ TasksRan
    /\ ret = "ok"
    /\ Len(workers) = 2
    /\ werr[1] = ErrDeadline
    /\ werr[2] = "nil"
    /\ wpatches[2] = 0
    /\ workers[1].volInfo.PVCNamespace = NsA
    /\ Cardinality(EntriesOf(1, NsB)) = 1
    /\ ResultCount(errs) = 1
    /\ original.Phase = "Finalizing"
    /\ stored.Phase = "PartiallyFailed"
    /\ stored.Errors = original.Errors + 1

\* The claim reference of pv names another PVC than the one of goroutine i.
ClaimRefDiffers(pv, i) ==
    \/ pv.ClaimRef.Name # workers[i].volInfo.PVCName
    \/ pv.ClaimRef.Namespace # RemappedNamespace(i)

\* C6: a goroutine that finds the bound PV referring to another PVC (by name
\* or by namespace) ends its poll at once with the error of the unexpected
\* PVC; it never polls again, issues no patch, and gets exactly one entry.
C6_MismatchIsPermanent ==
    \A i \in Workers :
        /\ (wpv[i].Kind = "Object" /\ ClaimRefDiffers(wpv[i], i)) =>
              /\ wpc[i] = "failed"
              /\ werr[i] = ErrUnexpectedPVC
        /\ werr[i] = ErrUnexpectedPVC =>
              /\ wpc[i] \in {"failed", "locked", "added", "exit", "unlocked", "done"}
              /\ wpatches[i] = 0
              /\ Cardinality(EntriesOf(i, RemappedNamespace(i))) =
                    IF wpc[i] \in {"added", "exit", "unlocked", "done"} THEN 1 ELSE 0

\* A goroutine has found its PV bound to the PVC of the same name in another
\* namespace.
C6_Witness ==
    \E i \in Workers :
        /\ wpc[i] = "failed"
        /\ wpv[i].Kind = "Object"
        /\ wpv[i].ClaimRef.Name = workers[i].volInfo.PVCName
        /\ wpv[i].ClaimRef.Namespace # RemappedNamespace(i)
        /\ werr[i] = ErrUnexpectedPVC

\* The reclaim policy of pv is not the recorded one, or a recorded label is
\* missing on pv or has another value there.
RecordedSettingsDiffer(pv, pvInfo) ==
    \/ pv.ReclaimPolicy # pvInfo.ReclaimPolicy
    \/ \E k \in DOMAIN pvInfo.Labels :
          \/ k \notin DOMAIN pv.Labels
          \/ pv.Labels[k] # pvInfo.Labels[k]

\* C7: the goroutine goes on to patch the PV it has just fetched and
\* validated exactly when the recorded settings differ on it; when they do
\* not (labels that are a superset included) its poll ends with success and
\* without a patch; a goroutine patches at most once.
C7_PatchIffNeeded ==
    \A i \in Workers :
        LET pvInfo == workers[i].volInfo.PVInfo[1]
        IN /\ wpc[i] = "patch" =>
                /\ wpatches[i] = 0
                /\ RecordedSettingsDiffer(wpv[i], pvInfo)
           /\ (wpc[i] = "ok" /\ wpatches[i] = 0) =>
                ~RecordedSettingsDiffer(wpv[i], pvInfo)
           /\ ( /\ wpv[i].Kind = "Object"
                /\ ~ClaimRefDiffers(wpv[i], i)
                /\ ~RecordedSettingsDiffer(wpv[i], pvInfo) ) =>
                (wpc[i] = "ok" /\ werr[i] = "nil")
           /\ wpatches[i] <= 1
           /\ wpatches[i] = 1 =>
                wpc[i] \in {"ok", "failed", "locked", "added", "exit", "unlocked", "done"}

\* A poll has ended with success and without a patch on a PV that carries
\* the recorded policy and, besides the recorded label, another label.
C7_Witness ==
    \E i \in Workers :
        /\ wpc[i] = "ok"
        /\ wpatches[i] = 0
        /\ DOMAIN workers[i].volInfo.PVInfo[1].Labels = {"k1"}
        /\ DOMAIN wpv[i].Labels = {"k1", "k2"}

\* C8, as stated: when the backup is not found, Reconcile starts no
\* goroutine, does not touch the backup store, leaves the restore
\* PartiallyFailed with a completion timestamp and its counts unchanged, and
\* returns success.
C8_MissingBackupAlwaysSucceeds ==
    (pc = "idle" /\ io.backup = "notfound") =>
        /\ workers = <<>>
        /\ io.reads = 0
        /\ io.writes = 0
        /\ stored.Phase = "PartiallyFailed"
        /\ stored.CompletionTimestamp = now
        /\ stored.Warnings = original.Warnings
        /\ stored.Errors = original.Errors
        /\ ret = "ok"

\* C8, amended: when the backup is not found, Reconcile starts no goroutine,
\* does not touch the backup store and submits one patch that sets the phase
\* PartiallyFailed and the completion timestamp and leaves the counts; it
\* returns success when that patch is applied, and the error of the patch,
\* with the restore as it was, when it is not.
C8_MissingBackup ==
    (pc = "idle" /\ io.backup = "notfound") =>
        /\ workers = <<>>
        /\ io.reads = 0
        /\ io.writes = 0
        /\ io.patches = 1
        /\ restore = [original EXCEPT !.Phase = "PartiallyFailed",
                                      !.CompletionTimestamp = now]
        /\ original.CompletionTimestamp # now
        /\ IF ret = "ok"
           THEN stored = restore
           ELSE /\ ret = "error updating restore's final status"
                /\ stored = original

\* A restore in Finalizing whose backup was not found ended PartiallyFailed,
\* its counts unchanged.
C8_Witness ==
    /\ pc = "idle"
    /\ io.backup = "notfound"
    /\ ret = "ok"
    /\ original.Phase = "Finalizing"
    /\ original.Errors = 1
    /\ stored.Phase = "PartiallyFailed"
    /\ stored.Errors = 1
    /\ stored.CompletionTimestamp = now

\* The finalization tasks of the current or last call were started.
TasksStarted == pc = "running" \/ TasksRan

\* The inventory holds the entry "key(created)" among the PVC entries.
RecordedCreated(key) ==
    /\ pvcKey \in DOMAIN restoredResourceList
    /\ \E j \in 1..Len(restoredResourceList[pvcKey]) :
          restoredResourceList[pvcKey][j] =
              key \o <<"(", "c", "r", "e", "a", "t", "e", "d", ")">>

\* The selection predicate of the remediation, for a volume of the backup.
Selected(v) ==
    /\ v.BackupMethod \in {"PodVolumeBackup", "CSISnapshot"}
    /\ v.PVInfo # <<>>
    /\ LET ns == IF v.PVCNamespace \in DOMAIN namespaceMapping
                 THEN namespaceMapping[v.PVCNamespace] ELSE v.PVCNamespace
       IN RecordedCreated(ns \o <<"/">> \o v.PVCName)

\* C9: the goroutines started are those of the volumes that were backed up
\* by pod volume backup or CSI snapshot, have a PVInfo, and whose PVC, in the
\* remapped namespace, is recorded as created; each works in the remapped
\* namespace; nothing is recorded for any other volume.
C9_Selection ==
    /\ TasksStarted =>
          /\ Len(workers) = Len(SelectSeq(volumeInfo, Selected))
          /\ \A i \in Workers :
                /\ workers[i].volInfo = SelectSeq(volumeInfo, Selected)[i]
                /\ workers[i].restoredNamespace = RemappedNamespace(i)
    /\ ~TasksStarted => workers = <<>>
    /\ \A ns \in DOMAIN errs.Namespaces :
          \A k \in 1..Len(errs.Namespaces[ns]) :
             \E i \in Workers :
                /\ errs.Namespaces[ns][k].PVC = workers[i].volInfo.PVCName
                /\ ns = RemappedNamespace(i)
    /\ Len(errs.Velero) = 0
    /\ Len(errs.Cluster) = 0

\* A goroutine runs for a volume whose namespace is remapped.
C9_Witness ==
    /\ pc = "running"
    /\ Len(workers) = 1
    /\ workers[1].volInfo.PVCNamespace = NsA
    /\ workers[1].restoredNamespace = NsB
    /\ wpc[1] = "getPV"

\* No volume of the backup is selected for the remediation.
ZeroEligible == SelectSeq(volumeInfo, Selected) = <<>>

\* A Reconcile call has ended on a restore that it found, or that is, in a
\* finalizing phase (a call whose Get of the restore failed holds no copy).
EndedOnFinalizing ==
    /\ pc = "idle"
    /\ ret # "none"
    /\ \/ EnteredFinalizing
       \/ ret = "error getting restore" /\ stored.Exists /\ stored.Phase \in FinalizingPhases

\* C10, as stated: a Reconcile call on a restore in a finalizing phase none
\* of whose volumes is selected ends with the restore Completed and writes no
\* results; results are written only when there are warnings or errors.
C10_NoVolumesAlwaysCompleted ==
    /\ (EndedOnFinalizing /\ ZeroEligible) =>
          /\ stored.Phase = "Completed"
          /\ io.writes = 0
    /\ io.writes > 0 => ResultCount(errs) > 0

\* C10, amended: such a call starts no goroutine and writes no results. When
\* it returns success it has written Completed for a restore that entered in
\* Finalizing and whose backup was found, and PartiallyFailed for one that
\* entered in FinalizingPartiallyFailed or whose backup was not found; when
\* it returns an error, which is never that of the results, the restore is
\* left in its finalizing phase. Results are written only when there are
\* warnings or errors.
C10_NoVolumes ==
    /\ (EndedOnFinalizing /\ ZeroEligible) =>
          /\ workers = <<>>
          /\ io.writes = 0
          /\ ret = "ok" =>
                stored.Phase =
                    IF original.Phase = "Finalizing" /\ io.backup = "found"
                    THEN "Completed" ELSE "PartiallyFailed"
          /\ ret # "ok" =>
                /\ ret # "error updating results"
                /\ stored.Phase \in FinalizingPhases
                /\ EnteredFinalizing => stored = original
    /\ io.writes > 0 => ResultCount(errs) > 0

\* A restore in Finalizing with a volume that is not selected ended
\* Completed without a write of results.
C10_Witness ==
    /\ EndedOnFinalizing
    /\ ZeroEligible
    /\ io.backup = "found"
    /\ ret = "ok"
    /\ volumeInfo # <<>>
    /\ workers = <<>>
    /\ original.Phase = "Finalizing"
    /\ stored.Phase = "Completed"
    /\ io.writes = 0

\* a is the beginning of b.
PrefixOf(a, b) == Len(a) <= Len(b) /\ SubSeq(b, 1, Len(a)) = a

\* Every entry of the Result old is in the Result new, in its scope and at
\* its place.
KeepsEntries(old, new) ==
    /\ PrefixOf(old.Velero, new.Velero)
    /\ PrefixOf(old.Cluster, new.Cluster)
    /\ \A n \in DOMAIN old.Namespaces :
          /\ n \in DOMAIN new.Namespaces
          /\ PrefixOf(old.Namespaces[n], new.Namespaces[n])

\* C11: whenever Reconcile changes the stored results it has read them once
\* and written them once, every entry stored before is still stored, in its
\* scope and under its key (warnings or errors), and the entries the tasks
\* returned follow them: the errors of each namespace after those stored for
\* that namespace, no warning since the tasks return none.
C11_ReadMergeWrite ==
    [][results' # results =>
          /\ pc = "running"
          /\ io'.reads = io.reads + 1
          /\ io'.writes = io.writes + 1
          /\ KeepsEntries(results.warnings, results'.warnings)
          /\ KeepsEntries(results.errors, results'.errors)
          /\ results'.warnings.Velero = results.warnings.Velero
          /\ results'.warnings.Cluster = results.warnings.Cluster
          /\ \A n \in {NsA, NsB} :
                NsEntries(results'.warnings, n) = NsEntries(results.warnings, n)
          /\ results'.errors.Velero = results.errors.Velero
          /\ results'.errors.Cluster = results.errors.Cluster
          /\ \A n \in {NsA, NsB} :
                NsEntries(results'.errors, n) =
                    NsEntries(results.errors, n) \o NsEntries(errs, n)
          /\ DOMAIN results'.errors.Namespaces \subseteq {NsA, NsB}
      ]_vars

\* Results were stored before the call, one error of them under namespace a;
\* the call has added the error of its failed volume after it.
C11_Witness ==
    /\ TasksRan
    /\ io.writes = 1
    /\ results.warnings.Cluster = <<Message("warned")>>
    /\ Len(NsEntries(results.errors, NsA)) = 2
    /\ NsEntries(results.errors, NsA)[1] = Message("failed")
    /\ NsEntries(results.errors, NsA)[2].PVC = PvcP

\* The entries of a Result, counted scope by scope.
RECURSIVE NamespaceEntries(_, _)
NamespaceEntries(r, S) ==
    IF S = {} THEN 0
    ELSE LET n == CHOOSE x \in S : TRUE
         IN Len(r.Namespaces[n]) + NamespaceEntries(r, S \ {n})

EntryCount(r) ==
    Len(r.Velero) + Len(r.Cluster) + NamespaceEntries(r, DOMAIN r.Namespaces)

\* C12: when a Reconcile call on a restore awaiting finalization ends with
\* success, the Warnings and Errors of the restore are those it had before
\* the call plus the number of entries, over all scopes, of the warnings and
\* of the errors the tasks returned; and no step ever lowers a count.
C12_CountsAdditive ==
    /\ [](( EndedWell /\ EnteredFinalizing ) =>
            /\ stored.Warnings = original.Warnings + EntryCount(ExecuteWarnings)
            /\ stored.Errors = original.Errors + EntryCount(errs))
    /\ [][ stored.Exists =>
            /\ stored'.Warnings >= stored.Warnings
            /\ stored'.Errors >= stored.Errors ]_vars

\* A restore that carried an error before its finalization has one more
\* after a call in which one volume failed.
C12_Witness ==
    /\ EndedWell
    /\ TasksRan
    /\ original.Errors = 1
    /\ original.Warnings = 1
    /\ EntryCount(errs) = 1
    /\ stored.Errors = 2
    /\ stored.Warnings = 1

\* C13: a Get of the PVC or of the PV that fails, with not-found or with
\* another error of the API server, and a PVC or PV that is not bound yet,
\* make the goroutine try again at the next poll tick: a Get never ends the
\* poll with an error, apart from the PV validated as bound to another PVC,
\* and an entry recorded for a goroutine that issued no patch is that of the
\* deadline or of the unexpected PVC.
C13_FetchFailureIsRetried ==
    /\ [][\A i \in Workers :
            (wpc[i] \in {"getPVC", "getPV"} /\ wpc'[i] = "failed") =>
                werr'[i] = ErrUnexpectedPVC]_vars
    /\ [](\A i \in Workers :
            (Recorded(i) /\ wpatches[i] = 0) =>
                werr[i] \in {ErrDeadline, ErrUnexpectedPVC})

\* Reading s from position i: every "(" is closed by a ")" before the next
\* "(", with something in between, and no ")" stands alone.
RECURSIVE GroupsInOrder(_, _, _, _)
GroupsInOrder(s, i, open, n) ==
    IF i > Len(s) THEN ~open
    ELSE IF s[i] = "(" THEN ~open /\ GroupsInOrder(s, i + 1, TRUE, 0)
    ELSE IF s[i] = ")" THEN open /\ n > 0 /\ GroupsInOrder(s, i + 1, FALSE, 0)
    ELSE GroupsInOrder(s, i + 1, open, IF open THEN n + 1 ELSE 0)

HasGroup(s) == \E i \in 1..Len(s) : s[i] = "("

\* An entry in the format "namespace/name(status)": its parenthesized groups
\* are in order and, if it has any, it ends with one.
InFormat(s) ==
    /\ GroupsInOrder(s, 1, FALSE, 0)
    /\ HasGroup(s) => s[Len(s)] = ")"

LastOpen(s) == CHOOSE i \in 1..Len(s) : s[i] = "(" /\ \A j \in (i + 1)..Len(s) : s[j] # "("

\* The status of an entry that ends with a group, and what stands before it.
StatusOf(s) == SubSeq(s, LastOpen(s) + 1, Len(s) - 1)
KeyOf(s) == SubSeq(s, 1, LastOpen(s) - 1)

\* The entries stored under the key of the PVCs.
PVCEntries ==
    IF "v1/PersistentVolumeClaim" \in DOMAIN restoredResourceList
    THEN restoredResourceList["v1/PersistentVolumeClaim"] ELSE <<>>

\* C14: of an inventory whose PVC entries are in the format, the function
\* returns the keys of the entries whose last group is exactly "created",
\* each key being the entry without that group, and nothing else; entries
\* under other keys count for nothing; and the goroutine of the volume of
\* claim a/p is started exactly when a/p is among the keys returned.
C14_CreatedKeys ==
    LET returned == getRestoredPVCFromRestoredResourceList(restoredResourceList)
        created == {j \in 1..Len(PVCEntries) :
                        /\ HasGroup(PVCEntries[j])
                        /\ StatusOf(PVCEntries[j]) = <<"c", "r", "e", "a", "t", "e", "d">>}
    IN /\ (\A j \in 1..Len(PVCEntries) : InFormat(PVCEntries[j])) =>
            returned = {KeyOf(PVCEntries[j]) : j \in created}
       /\ PVCEntries = <<>> => returned = {}
       /\ TasksStarted => (workers # <<>> <=> <<"a", "/", "p">> \in returned)

\* The inventory holds a/q(skipped), a/p(x)(created) and a/p(created) under
\* the key of the PVCs and a/q(created) under another key: a/p(x) and a/p are
\* returned, a/q is not, and the goroutine of a/p runs.
C14_Witness ==
    /\ pc = "running"
    /\ Len(PVCEntries) = 3
    /\ getRestoredPVCFromRestoredResourceList(restoredResourceList) =
          {<<"a", "/", "p">>, <<"a", "/", "p", "(", "x", ")">>}
    /\ Len(workers) = 1

\* The places of the entries of namespace ns of r that a finalization
\* recorded (the entries of the restore itself name no PV).
FinalizationEntries(r, ns) ==
    {k \in 1..Len(NsEntries(r, ns)) : NsEntries(r, ns)[k].PV # ""}

\* C15: when the restore has been reconciled to success, be it after a call
\* that persisted its results and then failed to patch the restore, the
\* stored results and counts are those of one uninterrupted call: no error
\* of the finalization is stored twice, and the Errors count has grown by
\* the number of finalization errors stored.
C15_IdempotentRetry ==
    (EndedWell /\ TasksRan) =>
        /\ \A ns \in {NsA, NsB} :
              \A j, k \in FinalizationEntries(results.errors, ns) :
                 NsEntries(results.errors, ns)[j] = NsEntries(results.errors, ns)[k]
                    => j = k
        /\ stored.Errors - original.Errors =
              Cardinality(FinalizationEntries(results.errors, NsA))
              + Cardinality(FinalizationEntries(results.errors, NsB))

\* What Reconcile returns when a step after the Get of the restore fails.
ErrorReturns ==
    {"error getting backup info", "error getting backup store",
     "error getting volumeInfo", "error getting restoredResourceList",
     "error updating results", "error updating restore's final status"}

\* C16: a Reconcile call submits at most one patch of the restore, as its
\* last step, and the patch carries the changes made to the copy of the
\* snapshot read at the start of the call; a call that returns an error
\* leaves the restore as that snapshot: in its finalizing phase, with its
\* Warnings, Errors and CompletionTimestamp.
C16_OnePatchLast ==
    /\ [](/\ io.patches <= 1
          /\ (pc = "idle" /\ ret \in ErrorReturns) =>
                /\ stored = original
                /\ stored.Phase \in FinalizingPhases
          /\ pc = "running" => (io.patches = 0 /\ stored = original))
    /\ [][/\ stored' # stored =>
                /\ pc' = "idle"
                /\ ret' = "ok"
                /\ io'.patches = 1
                /\ original' = stored
                /\ stored' = restore'
          /\ (pc = "running" /\ io'.patches # io.patches) => pc' = "idle"
         ]_vars

\* A call has stored the results of its failed volume and has then failed to
\* patch the restore: the restore is as it was, in Finalizing, while the
\* working copy carries the new count, phase and timestamp.
C16_Witness ==
    /\ pc = "idle"
    /\ ret = "error updating restore's final status"
    /\ io.writes = 1
    /\ io.patches = 1
    /\ stored = original
    /\ stored.Phase = "Finalizing"
    /\ restore.Phase = "PartiallyFailed"
    /\ restore.Errors = stored.Errors + 1
    /\ restore.CompletionTimestamp # stored.CompletionTimestamp

\* C17: every goroutine started ends, whatever the cluster answers, and
\* patchDynamicPVWithVolumeInfo returns to Reconcile, which ends; by then
\* every slot of the semaphore and the mutex are free again, also after
\* failures; a goroutine that waits for a slot gets one.
C17_Terminates ==
    /\ (pc = "running") ~>
          (/\ pc = "idle"
           /\ \A i \in Workers : wpc[i] = "done"
           /\ semaphore = 0
           /\ resultLock = 0
           /\ pvWaitGroup = 0)
    /\ [](\A i \in Workers :
            /\ wpc[i] \in {"unlocked", "done"} => resultLock # i
            /\ resultLock = i => wpc[i] \in {"locked", "added", "exit"})

\* The task has returned after more goroutines than slots, of which some
\* ended by their deadline, and nothing is held.
C17_Witness ==
    /\ TasksRan
    /\ Len(workers) > 3
    /\ \E i \in Workers : werr[i] = ErrDeadline
    /\ \E i \in Workers : werr[i] = "nil"
    /\ \A i \in Workers : wpc[i] = "done"
    /\ semaphore = 0
    /\ resultLock = 0

\* Goroutines between resultLock.Lock() and the deferred Unlock().
InFailureBranch == {i \in Workers : wpc[i] \in {"locked", "added", "exit"} /\ werr[i] # "nil"}

\* C18: at most one goroutine at a time is between Lock and Unlock, and it
\* is the holder of the mutex; errs changes only by the Add of the holder,
\* which adds one entry and loses none; and a goroutine that holds the mutex
\* is past its poll: it makes no Get, no patch and no wait until it returns.
C18_ExclusiveAppend ==
    /\ [](/\ Cardinality(InFailureBranch) <= 1
          /\ \A i \in InFailureBranch : resultLock = i
          /\ \A i \in Workers :
                resultLock = i =>
                    /\ i \in InFailureBranch
                    /\ i \notin Polling)
    /\ [][(pc = "running" /\ errs' # errs) =>
            \E i \in Workers :
               /\ resultLock = i
               /\ wpc[i] = "locked"
               /\ wpc'[i] = "added"
               /\ KeepsEntries(errs, errs')
               /\ EntryCount(errs') = EntryCount(errs) + 1]_vars
    /\ [][\A i \in Workers :
            (pc = "running" /\ resultLock = i /\ resultLock' = i) =>
                /\ wpatches'[i] = wpatches[i]
                /\ wpc'[i] \in {"locked", "added", "exit"}]_vars

\* One goroutine holds the mutex and has added its error, while the other
\* has failed too and waits for the mutex.
C18_Witness ==
    /\ Len(workers) = 2
    /\ wpc[1] = "failed"
    /\ wpc[2] = "added"
    /\ resultLock = 2
    /\ EntryCount(errs) = 1

\* The PVC and PV held by goroutine i are those of an iteration that passed
\* the checks before the patch decision: the PVC Bound with a volume name,
\* the PV Bound with a claim reference that names the PVC.
IterationValidated(i) ==
    /\ wpvc[i].Kind = "Object"
    /\ wpvc[i].Phase = "Bound"
    /\ wpvc[i].VolumeName # ""
    /\ wpv[i].Kind = "Object"
    /\ wpv[i].Phase = "Bound"
    /\ wpv[i].ClaimRef.Set
    /\ ~ClaimRefDiffers(wpv[i], i)

\* C19: a goroutine gets the PV only after it found the PVC Bound with a
\* volume name, and goes on to the patch only from the Get of the PV, in an
\* iteration whose PVC and PV passed every check; the patch sent is the PV of
\* that iteration with the recorded labels and policy; and the patch, applied
\* or failed, ends the poll: a goroutine issues at most one.
C19_PatchAfterChecks ==
    /\ [](\A i \in Workers :
            /\ wpc[i] = "getPV" =>
                  (wpvc[i].Kind = "Object" /\ wpvc[i].Phase = "Bound"
                   /\ wpvc[i].VolumeName # "")
            /\ wpc[i] = "patch" => (IterationValidated(i) /\ wpatches[i] = 0)
            /\ wpatches[i] <= 1
            /\ wpatches[i] = 1 => i \notin Polling)
    /\ [][pc = "running" =>
            \A i \in Workers :
               /\ (wpc'[i] = "getPV" /\ wpc[i] # "getPV") => wpc[i] = "getPVC"
               /\ (wpc'[i] = "patch" /\ wpc[i] # "patch") => wpc[i] = "getPV"
               /\ (wpc[i] = "wait" /\ wpc'[i] # "wait") =>
                     ( \/ wpc'[i] = "getPVC" /\ wpvc[i].Kind # "Object"
                       \/ wpc'[i] = "failed" /\ werr'[i] = ErrDeadline )
               /\ wpatches'[i] # wpatches[i] =>
                     /\ wpc[i] = "patch"
                     /\ wpatches'[i] = 1
                     /\ wpc'[i] \in {"ok", "failed"}
                     /\ wpc'[i] = "ok" =>
                           wpv'[i] = [wpv[i] EXCEPT
                                        !.Labels = workers[i].volInfo.PVInfo[1].Labels,
                                        !.ReclaimPolicy =
                                            workers[i].volInfo.PVInfo[1].ReclaimPolicy]
         ]_vars

\* A goroutine has patched the PV it had just validated, and its poll has
\* ended.
C19_Witness ==
    \E i \in Workers :
        /\ wpc[i] = "ok"
        /\ wpatches[i] = 1
        /\ IterationValidated(i)
        /\ wpv[i].Labels = workers[i].volInfo.PVInfo[1].Labels

\* C20: a goroutine whose poll ended with success holds a PV, as fetched or
\* as patched, with the recorded reclaim policy and with every recorded
\* label at its recorded value; a patch that is applied leaves the PV with
\* exactly the recorded labels, those it had besides being removed, and
\* changes nothing but labels and policy.
C20_PVCarriesPVInfo ==
    /\ [](\A i \in Workers :
            wpc[i] = "ok" =>
                LET pvInfo == workers[i].volInfo.PVInfo[1]
                IN /\ wpv[i].Kind = "Object"
                   /\ wpv[i].ReclaimPolicy = pvInfo.ReclaimPolicy
                   /\ \A k \in DOMAIN pvInfo.Labels :
                         k \in DOMAIN wpv[i].Labels /\ wpv[i].Labels[k] = pvInfo.Labels[k]
                   /\ wpatches[i] = 1 => wpv[i].Labels = pvInfo.Labels)
    /\ [][pc = "running" =>
            \A i \in Workers :
               (wpc[i] = "patch" /\ wpc'[i] = "ok") =>
                  /\ DOMAIN wpv'[i].Labels = DOMAIN workers[i].volInfo.PVInfo[1].Labels
                  /\ wpv'[i].ClaimRef = wpv[i].ClaimRef
                  /\ wpv'[i].Phase = wpv[i].Phase
         ]_vars

\* A PV fetched with the labels k1 and k2 and another policy than the
\* recorded one has been patched: it has the recorded policy and k1 alone.
C20_Witness ==
    \E i \in Workers :
        /\ wpc[i] = "ok"
        /\ wpatches[i] = 1
        /\ workers[i].volInfo.PVInfo[1] = PVInfoRetainK1
        /\ wpv[i].ReclaimPolicy = "Retain"
        /\ DOMAIN wpv[i].Labels = {"k1"}
        /\ wpv[i].Labels["k1"] = "v1"

====
